---- MODULE Spec2Model ----
(***************************************************************************)
(* A model of pydriosm's GeoFabrik class (src/pydriosm/geofabrik.py): the  *)
(* page-table crawl, the region-subregion tier build, the downloads        *)
(* catalogue with its duplicate resolution, the five pickled artefacts     *)
(* and the download orchestrator with its fallback to subregions.          *)
(*                                                                         *)
(* Conventions.  A Python value that may be None is modelled either by the *)
(* string "None" (for strings) or by a record with an ok/present flag (for *)
(* structured values), so that values stay comparable.  A pandas DataFrame *)
(* is a sequence of row records, each carrying its index label.  A Python  *)
(* dict is a sequence of <<key, value>> pairs in insertion order.          *)
(***************************************************************************)
EXTENDS Integers, Sequences, FiniteSets, TLC

VARIABLES
    crawled,      \* the frame pd.concat(avail_subregion_url_tables) yields
    compacted,    \* what the duplicate resolution made of it
    site,         \* the data source: its topology and the pages that fail
    tierOut,      \* what get_region_subregion_tier returned
    catOut,       \* what get_subregion_downloads_catalogue returned
    cache,        \* the pickles on disk, per artefact
    source,       \* the data source the getters read
    last,         \* the latest getter call and what it returned
    callNo,       \* the getter calls made so far
    req,          \* the arguments of the download call
    stack,        \* the frames of download_subregion_osm_file
    onDisk,       \* the paths of the files that exist
    dl,           \* the calls of download_file_from_url
    log,          \* what happened to each name, and the sleeps
    asks,         \* the confirmations asked during the download call
    outcome,      \* idle, running, returned or the exception raised
    arg,          \* the arguments of a function applied on its own
    ret           \* what that function returned

varsCompact == <<crawled, compacted>>
varsBuild == <<site, tierOut, catOut>>
varsCache == <<cache, source, last, callNo>>
varsDownload == <<req, stack, onDisk, dl, log, asks, outcome>>
varsApply == <<arg, ret>>

vars == <<varsCompact, varsBuild, varsCache, varsDownload, varsApply>>

-----------------------------------------------------------------------------
(* Generic helpers *)

None == "None"

Range(s) == {s[i] : i \in DOMAIN s}

SeqsUpTo(S, n) == UNION {[1..k -> S] : k \in 0..n}

RECURSIVE PickIdx(_, _, _)
\* the subsequence of s at the indexes in K, from index i on
PickIdx(s, K, i) ==
    IF i > Len(s) THEN <<>>
    ELSE (IF i \in K THEN <<s[i]>> ELSE <<>>) \o PickIdx(s, K, i + 1)

Min(S) == CHOOSE x \in S : \A y \in S : x <= y

\* body(v), with v computed once: a local name for the result of a call
With(v, body(_)) == CHOOSE r \in {body(x) : x \in {v}} : TRUE

-----------------------------------------------------------------------------
(* Bounds *)

MaxRows == 4            \* rows of the crawled frame
MaxFailing == 1         \* pages of the source that fail to load
MaxGenerations == 6     \* generations of the catalogue crawl that are modelled
RecursionLimit == 6     \* frames the interpreter allows a recursion
MaxCalls == 3           \* getter calls in one behaviour

-----------------------------------------------------------------------------
(* Rows of a subregion table and the catalogue's duplicate resolution *)

\* the text of the .osm.pbf.Size column: <<number, unit>>, or <<>> for None
NoSize == <<>>

\* a download URL: the directories of its path and its file name <<slug, ext>>;
\* NoUrl stands for None
NoUrl == [dirs |-> <<>>, file |-> <<>>]

\* the six columns of a row, without its index label
Cols(r) == <<r.Subregion, r.SubregionURL, r.pbf, r.Size, r.shp, r.bz2>>

\* humanfriendly.parse_size of the size text (decimal units)
ParseSize(x) ==
    CASE x[2] = "kB" -> x[1] * 1000
      [] x[2] = "MB" -> x[1] * 1000 * 1000
      [] OTHER       -> x[1]

\* range(start, stop, step) for a positive step
RECURSIVE PyRange(_, _, _)
PyRange(start, stop, step) ==
    IF start >= stop THEN <<>> ELSE <<start>> \o PyRange(start + step, stop, step)

\* df.index = range(len(df))
Reindex(df) == [i \in DOMAIN df |-> [df[i] EXCEPT !.label = i - 1]]

\* pd.concat(tables, ignore_index=True) of already concatenated rows
ConcatIgnoreIndex(rows) == [i \in DOMAIN rows |-> [rows[i] EXCEPT !.label = i - 1]]

\* the frame without its drop_duplicates (line 549)
KeepDuplicates(df) == df

\* DataFrame.drop_duplicates(): the first of equal rows stays, labels are kept
DropDuplicates(df) ==
    PickIdx(df, {i \in DOMAIN df : \A j \in 1..(i - 1) : Cols(df[j]) # Cols(df[i])}, 1)

\* df[df.Subregion.duplicated(keep=False)]
Duplicated(df) ==
    PickIdx(df, {i \in DOMAIN df :
                    \E j \in DOMAIN df : j # i /\ df[j].Subregion = df[i].Subregion}, 1)

\* df.drop(labels)
DropLabels(df, labels) == PickIdx(df, {i \in DOMAIN df : df[i].label \notin labels}, 1)

\* duplicated.iloc[i:i + 2], i counted from 0
Window(duplicated, i) ==
    PickIdx(duplicated, {k \in DOMAIN duplicated : i + 1 <= k /\ k <= i + 2}, 1)

\* the labels of the window's rows whose parsed size is the window's minimum
MinSizeLabels(temp) ==
    LET m == Min({ParseSize(temp[k].Size) : k \in DOMAIN temp})
    IN  {temp[k].label : k \in {k \in DOMAIN temp : ParseSize(temp[k].Size) = m}}

\* x.strip('(') of a None size raises AttributeError
WindowRaises(temp) == \E k \in DOMAIN temp : temp[k].Size = NoSize

\* the indexes the loop "for i in range(0, 2, len(duplicated))" visits
LoopIndexes(duplicated) == PyRange(0, 2, Len(duplicated))

RECURSIVE DropLoop(_, _, _, _)
\* the loop body applied for is[n], is[n+1], ...: [ok, val]; ok = FALSE when
\* parsing a size raised
DropLoop(cat, duplicated, is, n) ==
    IF n > Len(is) THEN [ok |-> TRUE, val |-> cat]
    ELSE LET temp == Window(duplicated, is[n])
         IN  IF WindowRaises(temp) THEN [ok |-> FALSE, val |-> <<>>]
             ELSE IF temp = <<>> THEN DropLoop(cat, duplicated, is, n + 1)
             ELSE DropLoop(DropLabels(cat, MinSizeLabels(temp)), duplicated, is, n + 1)

\* lines 551-561: the resolution of rows that share a Subregion name
ResolveNameDuplicates(cat) ==
    LET duplicated == Duplicated(cat)
    IN  IF duplicated = <<>> THEN [ok |-> TRUE, val |-> cat]
        ELSE LET r == DropLoop(cat, duplicated, LoopIndexes(duplicated), 1)
             IN  IF r.ok THEN [ok |-> TRUE, val |-> Reindex(r.val)] ELSE r

\* lines 548-561 on the rows collected by the crawl: [ok, val]; ok = FALSE is the
\* "except Exception" exit, which returns None and saves nothing
CompactRows(rows) == ResolveNameDuplicates(DropDuplicates(ConcatIgnoreIndex(rows)))

-----------------------------------------------------------------------------
(* The data source: the pages of download.geofabrik.de *)

\* what fetching a page can end in: its table, or an exception of a class
Caught == {"ValueError", "TypeError", "ConnectionRefusedError", "ConnectionError"}
FailKinds == {"ValueError", "ConnectionError", "HTTPError"}

Regions == {"Asia", "Europe", "Japan", "Russia", "GB", "London", "Wales"}
Pages == {"home", "index"} \cup Regions
Topologies == 1..8

\* the Subregion column of the table on a page (<<>>: the page has no table);
\* a region's page is named after the region.  Topology 5 is four levels
\* deep (Europe, GB, Wales, London) and in topology 6 the page of Japan lists
\* Asia, which lists Japan; the home page of topology 8 lists Europe first
Listed(t, page) ==
    CASE page = "home"   -> IF t = 2 THEN <<"Europe">>
                            ELSE IF t = 8 THEN <<"Europe", "Asia">>
                            ELSE <<"Asia", "Europe">>
      [] page = "Asia"   -> IF t = 3 THEN <<"Japan">> ELSE <<"Japan", "Russia">>
      [] page = "Europe" -> IF t = 3 THEN <<>> ELSE <<"GB", "Russia">>
      [] page = "GB"     -> IF t = 3 THEN <<>>
                            ELSE IF t = 5 THEN <<"Wales">> ELSE <<"London", "Wales">>
      [] page = "Wales"  -> IF t = 5 THEN <<"London">> ELSE <<>>
      [] page = "Japan"  -> IF t = 6 THEN <<"Asia">> ELSE <<>>
      [] OTHER           -> <<>>

Slug(n) ==
    CASE n = "Asia" -> "asia" [] n = "Europe" -> "europe" [] n = "Japan" -> "japan"
      [] n = "Russia" -> "russia" [] n = "GB" -> "great-britain"
      [] n = "London" -> "greater-london" [] n = "Wales" -> "wales"

\* the directories of a region's download URLs
UrlDirs(n) ==
    CASE n \in {"Asia", "Europe", "Russia"} -> <<>>
      [] n = "Japan"                        -> <<"asia">>
      [] n = "GB"                           -> <<"europe">>
      [] OTHER                              -> <<"europe", "great-britain">>

\* which formats the source offers for a region
Offers(n, ext) ==
    CASE ext = ".osm.pbf" -> n # "Japan"
      [] ext = ".shp.zip" -> n \in {"London", "Wales"}
      [] OTHER            -> TRUE

UrlOf(n, ext) == IF Offers(n, ext) THEN [dirs |-> UrlDirs(n), file |-> <<Slug(n), ext>>]
                 ELSE NoUrl

\* the size text beside the .osm.pbf link; topology 4 lists Russia with another
\* size on the page of Asia than on the page of Europe, and topology 7 with
\* the same size, written in another unit
SizeOn(t, page, n) ==
    IF ~Offers(n, ".osm.pbf") THEN NoSize
    ELSE CASE n \in {"Asia", "Europe"}         -> <<10, "MB">>
           [] n = "Russia" /\ t = 4 /\ page = "Asia" -> <<2900, "kB">>
           [] n = "Russia" /\ t = 7 /\ page = "Asia" -> <<3000, "kB">>
           [] n = "Russia"                     -> <<3, "MB">>
           [] n = "GB"                         -> <<1, "MB">>
           [] OTHER                            -> <<900, "kB">>

RowOn(t, page, n) ==
    [label |-> 0, Subregion |-> n, SubregionURL |-> n,
     pbf |-> UrlOf(n, ".osm.pbf"), Size |-> SizeOn(t, page, n),
     shp |-> UrlOf(n, ".shp.zip"), bz2 |-> UrlOf(n, ".osm.bz2")]

TableOn(t, page) ==
    LET ns == Listed(t, page) IN [i \in DOMAIN ns |-> [RowOn(t, page, ns[i]) EXCEPT !.label = i - 1]]

\* the "name" column of index-v1.json
IndexNames(t) ==
    CASE t = 2 -> <<"Europe", "GB", "Russia", "London", "Wales">>
      [] t = 3 -> <<"Asia", "Europe", "Japan">>
      [] OTHER -> <<"Asia", "Europe", "Japan", "Russia", "GB", "London", "Wales">>

NoTable == [has |-> FALSE, rows |-> <<>>]

\* get_subregion_table(url) on site s: [raised, tbl].  A page without a table
\* makes pd.read_html raise ValueError; an exception of a class named at line
\* 110 yields None, any other leaves the function
GetSubregionTable(s, url) ==
    LET kind == IF s.fail[url] # "ok" THEN s.fail[url]
                ELSE IF Listed(s.topo, url) = <<>> THEN "ValueError" ELSE "ok"
    IN  IF kind = "ok" THEN [raised |-> FALSE, tbl |-> [has |-> TRUE, rows |-> TableOn(s.topo, url)]]
        ELSE IF kind \in Caught THEN [raised |-> FALSE, tbl |-> NoTable]
        ELSE [raised |-> TRUE, tbl |-> NoTable]

\* [get_subregion_table(u) for u in urls]: [raised, tbls, n], n the pages fetched
RECURSIVE TablesOf(_, _)
TablesOf(s, urls) ==
    IF urls = <<>> THEN [raised |-> FALSE, tbls |-> <<>>, n |-> 0]
    ELSE With(GetSubregionTable(s, Head(urls)), LAMBDA h :
         IF h.raised THEN [raised |-> TRUE, tbls |-> <<>>, n |-> 1]
         ELSE LET r == TablesOf(s, Tail(urls))
              IN  IF r.raised THEN [raised |-> TRUE, tbls |-> <<>>, n |-> 1 + r.n]
                  ELSE [raised |-> FALSE, tbls |-> <<h.tbl>> \o r.tbls, n |-> 1 + r.n])

\* dict(zip(keys, values)): a repeated key keeps its first place and takes its
\* last value
DictZip(keys, values) ==
    LET firsts == {i \in DOMAIN keys : \A j \in 1..(i - 1) : keys[j] # keys[i]}
        lastOf(i) == CHOOSE j \in DOMAIN keys :
                      keys[j] = keys[i] /\ \A k \in DOMAIN keys : keys[k] = keys[i] => k <= j
    IN  PickIdx([i \in DOMAIN keys |-> <<keys[i], values[lastOf(i)]>>], firsts, 1)

Column(rows, f(_)) == [i \in DOMAIN rows |-> f(rows[i])]
SubregionOf(r) == r.Subregion
SubregionURLOf(r) == r.SubregionURL

\* more_itertools.unique_everseen
UniqueEverseen(s) == PickIdx(s, {i \in DOMAIN s : \A j \in 1..(i - 1) : s[j] # s[i]}, 1)

-----------------------------------------------------------------------------
(* The region-subregion tier (compile_region_subregion_tier) *)

\* a value of the tier dict: None (no subregions) or the dict of the subregions
Leaf == [leaf |-> TRUE, sub |-> <<>>]
Node(sub) == [leaf |-> FALSE, sub |-> sub]

RECURSIVE CompileTier(_, _, _), CompileEach(_, _, _, _)

\* compile_region_subregion_tier without line 428, which appends a key
\* without a table to non_subregions_list
CompileTierListsNoLeaf(s, tbls, fuel) ==
    IF fuel = 0 THEN [raised |-> TRUE, tier |-> <<>>, non |-> <<>>, n |-> 0]
    ELSE
    LET hasIdx == {i \in DOMAIN tbls : tbls[i][2].has}
        having == PickIdx(tbls, hasIdx, 1)
        pos(i) == Cardinality({j \in hasIdx : j <= i})
    IN  With(CompileEach(s, having, 1, fuel), LAMBDA each :
        IF each.raised THEN [raised |-> TRUE, tier |-> <<>>, non |-> <<>>, n |-> each.n]
        ELSE [raised |-> FALSE,
              tier |-> [i \in DOMAIN tbls |->
                          <<tbls[i][1], IF i \in hasIdx THEN Node(each.tiers[pos(i)]) ELSE Leaf>>],
              non |-> UniqueEverseen(each.non),
              n |-> each.n])

\* compile_region_subregion_tier without line 450, which removes from
\* non_subregions_list the later occurrences of a name
CompileTierKeepsDuplicates(s, tbls, fuel) ==
    IF fuel = 0 THEN [raised |-> TRUE, tier |-> <<>>, non |-> <<>>, n |-> 0]
    ELSE
    LET hasIdx == {i \in DOMAIN tbls : tbls[i][2].has}
        having == PickIdx(tbls, hasIdx, 1)
        non0   == PickIdx([i \in DOMAIN tbls |-> tbls[i][1]], DOMAIN tbls \ hasIdx, 1)
        pos(i) == Cardinality({j \in hasIdx : j <= i})
    IN  With(CompileEach(s, having, 1, fuel), LAMBDA each :
        IF each.raised THEN [raised |-> TRUE, tier |-> <<>>, non |-> <<>>, n |-> each.n]
        ELSE [raised |-> FALSE,
              tier |-> [i \in DOMAIN tbls |->
                          <<tbls[i][1], IF i \in hasIdx THEN Node(each.tiers[pos(i)]) ELSE Leaf>>],
              non |-> non0 \o each.non,
              n |-> each.n])

\* compile_region_subregion_tier(sub_reg_tbls) with fuel frames of the
\* interpreter's stack left: [raised, tier, non, n]
CompileTier(s, tbls, fuel) ==
    IF fuel = 0 THEN [raised |-> TRUE, tier |-> <<>>, non |-> <<>>, n |-> 0]
    ELSE
    LET hasIdx == {i \in DOMAIN tbls : tbls[i][2].has}
        having == PickIdx(tbls, hasIdx, 1)
        non0   == PickIdx([i \in DOMAIN tbls |-> tbls[i][1]], DOMAIN tbls \ hasIdx, 1)
        pos(i) == Cardinality({j \in hasIdx : j <= i})
    IN  With(CompileEach(s, having, 1, fuel), LAMBDA each :
        IF each.raised THEN [raised |-> TRUE, tier |-> <<>>, non |-> <<>>, n |-> each.n]
        ELSE [raised |-> FALSE,
              tier |-> [i \in DOMAIN tbls |->
                          <<tbls[i][1], IF i \in hasIdx THEN Node(each.tiers[pos(i)]) ELSE Leaf>>],
              non |-> UniqueEverseen(non0 \o each.non),
              n |-> each.n])

\* the loop over having_subregions from its i-th entry on:
\* [raised, tiers, non, n]
CompileEach(s, having, i, fuel) ==
    IF i > Len(having) THEN [raised |-> FALSE, tiers |-> <<>>, non |-> <<>>, n |-> 0]
    ELSE LET tb == having[i][2].rows
         IN  With(TablesOf(s, Column(tb, SubregionURLOf)), LAMBDA fetched :
             IF fetched.raised
             THEN [raised |-> TRUE, tiers |-> <<>>, non |-> <<>>, n |-> fetched.n]
             ELSE With(CompileTier(s, DictZip(Column(tb, SubregionOf), fetched.tbls), fuel - 1),
                       LAMBDA sub :
                  IF sub.raised
                  THEN [raised |-> TRUE, tiers |-> <<>>, non |-> <<>>, n |-> fetched.n + sub.n]
                  ELSE LET rest == CompileEach(s, having, i + 1, fuel)
                       IN  [raised |-> rest.raised,
                            tiers |-> <<sub.tier>> \o rest.tiers,
                            non |-> sub.non \o rest.non,
                            n |-> fetched.n + sub.n + rest.n]))

\* the dict an invocation of compile_region_subregion_tier is given on site
\* s for a page: the tables of the regions the page lists, by name (for the
\* page "home" the continent tables of line 460, for the page of a region the
\* sub_subregion_tables of lines 439-440)
SubRegTblsOn(s, page) ==
    LET tb == TableOn(s.topo, page)
    IN  DictZip(Column(tb, SubregionOf), TablesOf(s, Column(tb, SubregionURLOf)).tbls)

\* lines 420-431: having_subregions, the entries of the dict that have a table
HavingSubregions(tbls) == PickIdx(tbls, {i \in DOMAIN tbls : tbls[i][2].has}, 1)

\* the loop without its line 447: nothing is taken out of
\* having_subregions_temp
PopNothing(temp, region_name) == temp

\* line 447: having_subregions_temp.pop(region_name), for a key that is there
PopRegion(temp, region_name) == SelectSeq(temp, LAMBDA k : k # region_name)

-----------------------------------------------------------------------------
(* The crawl of the downloads catalogue (lines 515-548) *)

NonNone(tbls) == PickIdx(tbls, {i \in DOMAIN tbls : tbls[i].has}, 1)

RECURSIVE Flatten(_)
Flatten(tbls) == IF tbls = <<>> THEN <<>> ELSE Head(tbls).rows \o Flatten(Tail(tbls))

RECURSIVE CrawlInner(_, _, _, _, _)
\* "for subregion_url_table in subregion_url_tables" from the i-th table on;
\* avail_subregion_url_tables grows by the whole of subregion_url_tables_ in
\* every round of the loop: [raised, avail, new, n]
CrawlInner(s, frontier, i, avail, new) ==
    IF i > Len(frontier) THEN [raised |-> FALSE, avail |-> avail, new |-> new, n |-> 0]
    ELSE With(TablesOf(s, Column(frontier[i].rows, SubregionURLOf)), LAMBDA f :
         IF f.raised THEN [raised |-> TRUE, avail |-> avail, new |-> new, n |-> f.n]
         ELSE LET new2 == new \o NonNone(f.tbls)
                  r == CrawlInner(s, frontier, i + 1, avail \o new2, new2)
              IN  [r EXCEPT !.n = f.n + r.n])

RECURSIVE CrawlLoop(_, _, _, _)
\* "while subregion_url_tables" with fuel generations left to model:
\* [raised, diverged, avail, n]
CrawlLoop(s, avail, frontier, fuel) ==
    IF frontier = <<>>
    THEN [raised |-> FALSE, diverged |-> FALSE, avail |-> avail, n |-> 0]
    ELSE IF fuel = 0
    THEN [raised |-> FALSE, diverged |-> TRUE, avail |-> avail, n |-> 0]
    ELSE With(CrawlInner(s, frontier, 1, avail, <<>>), LAMBDA g :
         IF g.raised
         THEN [raised |-> TRUE, diverged |-> FALSE, avail |-> avail, n |-> g.n]
         ELSE LET r == CrawlLoop(s, g.avail, g.new, fuel - 1)
              IN  [r EXCEPT !.n = g.n + r.n])

\* lines 515-549 of get_subregion_downloads_catalogue, the crawl and the
\* removal of the exact duplicates: [how, val, n, raw]; how is "built",
\* "failed" (an exception reached "except Exception") or "diverged" (the
\* while loop does not end), raw the number of rows that were concatenated
AssembleCatalogue(s) ==
    LET out(how, val, n, raw) == [how |-> how, val |-> val, n |-> n, raw |-> raw]
    IN  IF s.fail["home"] # "ok" THEN out("failed", <<>>, 1, 0)
        ELSE
        With(TablesOf(s, Column(TableOn(s.topo, "home"), SubregionURLOf)), LAMBDA t0 :
        IF t0.raised THEN out("failed", <<>>, 1 + t0.n, 0)
        ELSE
        With(NonNone(t0.tbls), LAMBDA avail0 :
        With(CrawlLoop(s, avail0, avail0, MaxGenerations), LAMBDA lp :
        IF lp.raised THEN out("failed", <<>>, 1 + t0.n + lp.n, 0)
        ELSE IF lp.diverged THEN out("diverged", <<>>, 1 + t0.n + lp.n, 0)
        ELSE
        With(GetSubregionTable(s, "home"), LAMBDA home :
        With(NonNone(lp.avail \o <<home.tbl>>), LAMBDA all :
        LET n == 2 + t0.n + lp.n
        IN  IF home.raised \/ all = <<>> THEN out("failed", <<>>, n, 0)
            ELSE With(Flatten(all), LAMBDA rows :
                 out("built", DropDuplicates(ConcatIgnoreIndex(rows)), n, Len(rows))))))))

\* the try block of get_subregion_downloads_catalogue (lines 515-561):
\* [how, val, n]
BuildCatalogue(s) ==
    With(AssembleCatalogue(s), LAMBDA a :
    IF a.how # "built" THEN [how |-> a.how, val |-> <<>>, n |-> a.n]
    ELSE With(ResolveNameDuplicates(a.val), LAMBDA c :
         IF c.ok THEN [how |-> "built", val |-> c.val, n |-> a.n]
         ELSE [how |-> "failed", val |-> <<>>, n |-> a.n]))

-----------------------------------------------------------------------------
(* The five pickled artefacts and their getters *)

Keys == {"index", "names", "continents", "tier", "catalogue"}

NoTier == [tier |-> <<>>, non |-> <<>>]

\* the value that stands for None, per artefact
NoneOf(key) == IF key = "tier" THEN NoTier ELSE <<>>

Stored(v) == [present |-> TRUE, val |-> v]
AbsentOf(key) == [present |-> FALSE, val |-> NoneOf(key)]
EmptyCache == [k \in Keys |-> AbsentOf(k)]

\* pyhelpers.ops.confirmed(prompt, confirmation_required)
Confirmed(confReq, answer) == ~confReq \/ answer
Asked(key, confReq) == IF confReq THEN <<key>> ELSE <<>>

\* what a getter call yields: how it ended, whether it returned a value other
\* than None, the value, the cache afterwards, the prompts shown, the pages
\* fetched
Res(how, ok, val, c, prompts, n) ==
    [how |-> how, ok |-> ok, val |-> val, cache |-> c, prompts |-> prompts, n |-> n]

\* get_index_of_all_downloads reading the index before it asks
GetIndexFetchesFirst(c, s, update, confReq, ans) ==
    IF c["index"].present /\ ~update
    THEN Res("loaded", TRUE, c["index"].val, c, <<>>, 0)
    ELSE IF Confirmed(confReq, ans["index"])
    THEN IF s.fail["index"] = "ok"
         THEN Res("built", TRUE, IndexNames(s.topo),
                  [c EXCEPT !["index"] = Stored(IndexNames(s.topo))],
                  Asked("index", confReq), 1)
         ELSE Res("failed", FALSE, <<>>, c, Asked("index", confReq), 1)
    ELSE Res("declined", FALSE, <<>>, c, Asked("index", confReq), 1)

\* get_index_of_all_downloads with its save_pickle after the try statement,
\* where it writes the None of a failed rebuild as well
GetIndexSavesWhatever(c, s, update, confReq, ans) ==
    IF c["index"].present /\ ~update
    THEN Res("loaded", TRUE, c["index"].val, c, <<>>, 0)
    ELSE IF Confirmed(confReq, ans["index"])
    THEN IF s.fail["index"] = "ok"
         THEN Res("built", TRUE, IndexNames(s.topo),
                  [c EXCEPT !["index"] = Stored(IndexNames(s.topo))],
                  Asked("index", confReq), 1)
         ELSE Res("failed", FALSE, <<>>, [c EXCEPT !["index"] = Stored(<<>>)],
                  Asked("index", confReq), 1)
    ELSE Res("declined", FALSE, <<>>, c, Asked("index", confReq), 0)

\* lines 193-225
GetIndex(c, s, update, confReq, ans) ==
    IF c["index"].present /\ ~update
    THEN Res("loaded", TRUE, c["index"].val, c, <<>>, 0)
    ELSE IF Confirmed(confReq, ans["index"])
    THEN IF s.fail["index"] = "ok"
         THEN LET v == IndexNames(s.topo)
              IN  Res("built", TRUE, v, [c EXCEPT !["index"] = Stored(v)],
                      Asked("index", confReq), 1)
         ELSE Res("failed", FALSE, <<>>, c, Asked("index", confReq), 1)
    ELSE Res("declined", FALSE, <<>>, c, Asked("index", confReq), 0)

\* lines 254-272; download_index.name of a None index raises AttributeError,
\* which leaves the getter ("raised")
GetNames(c, s, update, confReq, ans) ==
    IF c["names"].present /\ ~update
    THEN Res("loaded", TRUE, c["names"].val, c, <<>>, 0)
    ELSE IF Confirmed(confReq, ans["names"])
    THEN With(GetIndex(c, s, update, FALSE, ans), LAMBDA idx :
         LET asked == Asked("names", confReq) \o idx.prompts
         IN  IF ~idx.ok THEN Res("raised", FALSE, <<>>, idx.cache, asked, idx.n)
             ELSE Res("built", TRUE, idx.val,
                      [idx.cache EXCEPT !["names"] = Stored(idx.val)], asked, idx.n))
    ELSE Res("declined", TRUE, <<>>, c, Asked("names", confReq), 0)

\* lines 334-369
GetContinents(c, s, update, confReq, ans) ==
    IF c["continents"].present /\ ~update
    THEN Res("loaded", TRUE, c["continents"].val, c, <<>>, 0)
    ELSE IF Confirmed(confReq, ans["continents"])
    THEN IF s.fail["home"] # "ok"
         THEN Res("failed", FALSE, <<>>, c, Asked("continents", confReq), 1)
         ELSE LET home == TableOn(s.topo, "home")
              IN  With(TablesOf(s, Column(home, SubregionURLOf)), LAMBDA t :
                  IF t.raised
                  THEN Res("failed", FALSE, <<>>, c, Asked("continents", confReq), 1 + t.n)
                  ELSE With(DictZip(Column(home, SubregionOf), t.tbls), LAMBDA v :
                       Res("built", TRUE, v, [c EXCEPT !["continents"] = Stored(v)],
                           Asked("continents", confReq), 1 + t.n)))
    ELSE Res("declined", FALSE, <<>>, c, Asked("continents", confReq), 0)

\* get_region_subregion_tier without "update=update" in its call of
\* get_continents_subregion_tables
GetTierStaleTables(c, s, update, confReq, ans) ==
    IF c["tier"].present /\ ~update
    THEN Res("loaded", TRUE, c["tier"].val, c, <<>>, 0)
    ELSE IF Confirmed(confReq, ans["tier"])
    THEN With(GetContinents(c, s, FALSE, TRUE, ans), LAMBDA ct :
         LET asked == Asked("tier", confReq) \o ct.prompts
         IN  IF ~ct.ok THEN Res("failed", FALSE, NoTier, ct.cache, asked, ct.n)
             ELSE With(CompileTier(s, ct.val, RecursionLimit), LAMBDA r :
                  IF r.raised
                  THEN Res("failed", FALSE, NoTier, ct.cache, asked, ct.n + r.n)
                  ELSE LET v == [tier |-> r.tier, non |-> r.non]
                       IN  Res("built", TRUE, v, [ct.cache EXCEPT !["tier"] = Stored(v)],
                               asked, ct.n + r.n)))
    ELSE Res("declined", FALSE, NoTier, c, Asked("tier", confReq), 0)

\* lines 399-475; get_continents_subregion_tables is called with its default
\* confirmation_required=True, and compiling a None table dict raises
GetTier(c, s, update, confReq, ans) ==
    IF c["tier"].present /\ ~update
    THEN Res("loaded", TRUE, c["tier"].val, c, <<>>, 0)
    ELSE IF Confirmed(confReq, ans["tier"])
    THEN With(GetContinents(c, s, update, TRUE, ans), LAMBDA ct :
         LET asked == Asked("tier", confReq) \o ct.prompts
         IN  IF ~ct.ok THEN Res("failed", FALSE, NoTier, ct.cache, asked, ct.n)
             ELSE With(CompileTier(s, ct.val, RecursionLimit), LAMBDA r :
                  IF r.raised
                  THEN Res("failed", FALSE, NoTier, ct.cache, asked, ct.n + r.n)
                  ELSE LET v == [tier |-> r.tier, non |-> r.non]
                       IN  Res("built", TRUE, v, [ct.cache EXCEPT !["tier"] = Stored(v)],
                               asked, ct.n + r.n)))
    ELSE Res("declined", FALSE, NoTier, c, Asked("tier", confReq), 0)

\* get_subregion_downloads_catalogue without its save_pickle
GetCatalogueNoSave(c, s, update, confReq, ans) ==
    IF c["catalogue"].present /\ ~update
    THEN Res("loaded", TRUE, c["catalogue"].val, c, <<>>, 0)
    ELSE IF Confirmed(confReq, ans["catalogue"])
    THEN With(BuildCatalogue(s), LAMBDA b :
         IF b.how = "built"
         THEN Res("built", TRUE, b.val, c, Asked("catalogue", confReq), b.n)
         ELSE Res(b.how, FALSE, <<>>, c, Asked("catalogue", confReq), b.n))
    ELSE Res("declined", FALSE, <<>>, c, Asked("catalogue", confReq), 0)

\* lines 504-574
GetCatalogue(c, s, update, confReq, ans) ==
    IF c["catalogue"].present /\ ~update
    THEN Res("loaded", TRUE, c["catalogue"].val, c, <<>>, 0)
    ELSE IF Confirmed(confReq, ans["catalogue"])
    THEN With(BuildCatalogue(s), LAMBDA b :
         IF b.how = "built"
         THEN Res("built", TRUE, b.val, [c EXCEPT !["catalogue"] = Stored(b.val)],
                  Asked("catalogue", confReq), b.n)
         ELSE Res(b.how, FALSE, <<>>, c, Asked("catalogue", confReq), b.n))
    ELSE Res("declined", FALSE, <<>>, c, Asked("catalogue", confReq), 0)

-----------------------------------------------------------------------------
(* The download orchestrator (lines 576-965) *)

ValidFileFormats == {".osm.pbf", ".shp.zip", ".osm.bz2"}

\* the catalogue column of a file format
UrlIn(row, fmt) ==
    CASE fmt = ".osm.pbf" -> row.pbf [] fmt = ".shp.zip" -> row.shp [] OTHER -> row.bz2

\* os.path.splitext(osm_file_format)[0]
Stem(fmt) == IF fmt = ".shp.zip" THEN ".shp" ELSE ".osm"

\* A directory is a sequence of segments and a segment a tuple of strings;
\* a path is a directory and a file name.  NoDir is a download_dir that is
\* None or empty, NoPath a path that is None, NoName a name not yet resolved
NoDir == <<>>
NoPath == [dir |-> <<>>, file |-> <<>>]
NoName == "?"

DataDir == <<<<"dat_GeoFabrik">>>>

\* pydriosm.utils.cd_dat_geofabrik(download_dir, *sub_dirs): os.path.join on
\* the data directory; an empty download_dir adds nothing, an absolute one
\* takes the place of the data directory
CdDatGeofabrik(download_dir, sub_dirs) ==
    (IF download_dir = NoDir THEN DataDir ELSE download_dir) \o sub_dirs

\* pyhelpers.text.find_similar_str(x, lookup): None for an empty lookup list,
\* the entry that x names (as it is written in the list or in a URL) when
\* there is one, and otherwise what the similarity measure makes of x: m,
\* which is None or an entry of the list
FindSimilarStr(x, lookup, m) ==
    IF lookup = <<>> THEN None
    ELSE LET hits == {i \in DOMAIN lookup : lookup[i] = x \/ Slug(lookup[i]) = x}
         IN  IF hits # {} THEN lookup[Min(hits)]
             ELSE IF m \in Range(lookup) THEN m ELSE None

\* lines 298-306, for a query that is a plain name: [exc, name, cache, prompts]
RegulateInputSubregionName(c, s, q, ans, m) ==
    With(GetNames(c, s, FALSE, TRUE, ans), LAMBDA nl :
    [exc |-> IF nl.how = "raised" THEN "AttributeError" ELSE "none",
     name |-> IF nl.how = "raised" THEN NoName ELSE FindSimilarStr(q, nl.val, m),
     cache |-> nl.cache, prompts |-> nl.prompts])

UrlRes(exc, name, url, c, prompts) ==
    [exc |-> exc, name |-> name, url |-> url, cache |-> c, prompts |-> prompts]

\* get_subregion_download_url with "if not subregion_name_" left out
GetSubregionDownloadUrlUnchecked(c, s, q, fmt, ans, m) ==
    With(GetCatalogue(c, s, FALSE, TRUE, ans), LAMBDA cat :
    IF ~cat.ok
    THEN UrlRes(IF cat.how = "diverged" THEN "NoReturn" ELSE "AttributeError",
                NoName, NoUrl, cat.cache, cat.prompts)
    ELSE With(RegulateInputSubregionName(cat.cache, s, q, ans, m), LAMBDA reg :
         LET asked == cat.prompts \o reg.prompts
             rows == {i \in DOMAIN cat.val : cat.val[i].Subregion = reg.name}
         IN  IF reg.exc # "none" THEN UrlRes(reg.exc, NoName, NoUrl, reg.cache, asked)
             ELSE IF rows = {} THEN UrlRes("KeyError", reg.name, NoUrl, reg.cache, asked)
             ELSE IF Cardinality(rows) > 1
             THEN UrlRes("TypeError", reg.name, NoUrl, reg.cache, asked)
             ELSE UrlRes("none", reg.name, UrlIn(cat.val[CHOOSE i \in rows : TRUE], fmt),
                         reg.cache, asked)))

\* lines 621-635, called without update: [exc, name, url, cache, prompts].
\* set_index on a None catalogue raises AttributeError before the name is
\* looked at; .loc raises KeyError for a name that is in no row, and yields
\* a Series, which the callers cannot parse, for a name that is in several
GetSubregionDownloadUrl(c, s, q, fmt, ans, m) ==
    With(GetCatalogue(c, s, FALSE, TRUE, ans), LAMBDA cat :
    IF ~cat.ok
    THEN UrlRes(IF cat.how = "diverged" THEN "NoReturn" ELSE "AttributeError",
                NoName, NoUrl, cat.cache, cat.prompts)
    ELSE With(RegulateInputSubregionName(cat.cache, s, q, ans, m), LAMBDA reg :
         LET asked == cat.prompts \o reg.prompts
             rows == {i \in DOMAIN cat.val : cat.val[i].Subregion = reg.name}
         IN  IF reg.exc # "none" THEN UrlRes(reg.exc, NoName, NoUrl, reg.cache, asked)
             ELSE IF reg.name = None
             THEN UrlRes("ValueError", None, NoUrl, reg.cache, asked)
             ELSE IF rows = {} THEN UrlRes("KeyError", reg.name, NoUrl, reg.cache, asked)
             ELSE IF Cardinality(rows) > 1
             THEN UrlRes("TypeError", reg.name, NoUrl, reg.cache, asked)
             ELSE UrlRes("none", reg.name, UrlIn(cat.val[CHOOSE i \in rows : TRUE], fmt),
                         reg.cache, asked)))

\* lines 670-681: [exc, file, cache, prompts]
GetDefaultOsmFilename(c, s, name, fmt, ans, m) ==
    With(GetSubregionDownloadUrl(c, s, name, fmt, ans, m), LAMBDA u :
    [exc |-> u.exc,
     file |-> IF u.exc # "none" THEN <<>>
              ELSE IF u.url = NoUrl THEN <<Slug(name), fmt>> ELSE u.url.file,
     cache |-> u.cache, prompts |-> u.prompts])

\* line 735: [find_similar_str(x, subregion_names) if x != 'us' else
\* 'United States' for x in parsed_path[0:-1]]
PathSegments(parsed, subregion_names, m) ==
    [i \in DOMAIN parsed |->
        IF parsed[i] # "us" THEN FindSimilarStr(parsed[i], subregion_names, m)
        ELSE "United States"]

\* lines 719-741: [exc, path, cache, prompts]; path is NoPath where the code
\* returns (None, None).  A segment that find_similar_str leaves None makes
\* os.path.join raise TypeError
GetDefaultPathToOsmFile(c, s, name, fmt, ans, m) ==
    LET out(exc, path, c2, asked) == [exc |-> exc, path |-> path, cache |-> c2, prompts |-> asked]
    IN  With(GetSubregionDownloadUrl(c, s, name, fmt, ans, m), LAMBDA u :
        IF u.exc # "none" THEN out(u.exc, NoPath, u.cache, u.prompts)
        ELSE IF u.url = NoUrl THEN out("none", NoPath, u.cache, u.prompts)
        ELSE With(GetNames(u.cache, s, FALSE, TRUE, ans), LAMBDA nl :
             LET parsed == IF u.url.dirs = <<>> THEN <<u.name>> ELSE u.url.dirs
                 asked == u.prompts \o nl.prompts
                 segs == PathSegments(parsed, nl.val, m)
             IN  IF nl.how = "raised" THEN out("AttributeError", NoPath, nl.cache, asked)
                 ELSE IF \E i \in DOMAIN segs : segs[i] = None
                 THEN out("TypeError", NoPath, nl.cache, asked)
                 ELSE out("none",
                          [dir |-> CdDatGeofabrik(NoDir, [i \in DOMAIN segs |-> <<segs[i]>>]),
                           file |-> u.url.file],
                          nl.cache, asked)))

\* lines 852-862: [exc, dir, cache, prompts]; a download_dir that is given is
\* replaced by the empty string
MakeDefaultSubSubregionDownloadDir(c, s, name, fmt, download_dir, ans, m) ==
    LET sub == <<Slug(name), Stem(fmt)>>
    IN  IF download_dir # NoDir
        THEN [exc |-> "none", dir |-> CdDatGeofabrik(NoDir, <<sub>>), cache |-> c,
              prompts |-> <<>>]
        ELSE With(GetDefaultPathToOsmFile(c, s, name, ".osm.pbf", ans, m), LAMBDA p :
             IF p.exc # "none" THEN [exc |-> p.exc, dir |-> NoDir, cache |-> p.cache,
                                     prompts |-> p.prompts]
             ELSE IF p.path = NoPath THEN [exc |-> "TypeError", dir |-> NoDir,
                                           cache |-> p.cache, prompts |-> p.prompts]
             ELSE [exc |-> "none", dir |-> CdDatGeofabrik(p.path.dir, <<sub>>),
                   cache |-> p.cache, prompts |-> p.prompts])

RECURSIVE FindSubregions(_, _)
\* list(find_subregions(reg_name, reg_sub_idx)), lines 776-791: what the
\* generator yields, in order
FindSubregions(reg_name, reg_sub_idx) ==
    IF reg_sub_idx = <<>> THEN <<>>
    ELSE LET k == Head(reg_sub_idx)[1]
             v == Head(reg_sub_idx)[2]
             here == IF reg_name = k
                     THEN <<IF v.leaf THEN <<reg_name>>
                            ELSE [i \in DOMAIN v.sub |-> v.sub[i][1]]>>
                     ELSE IF ~v.leaf THEN FindSubregions(reg_name, v.sub) ELSE <<>>
         IN  here \o FindSubregions(reg_name, Tail(reg_sub_idx))

\* retrieve_names_of_subregions_of(name), lines 769-805 and 807-808:
\* [exc, names, non, cache, prompts].  The items() of a None tier raises
\* AttributeError, and [0] of an empty list IndexError
RetrieveShallow(c, s, name, ans, m) ==
    With(GetTier(c, s, FALSE, TRUE, ans), LAMBDA t :
    With(RegulateInputSubregionName(t.cache, s, name, ans, m), LAMBDA reg :
    LET found == FindSubregions(reg.name, t.val.tier)
        out(exc, names) == [exc |-> exc, names |-> names, non |-> t.val.non,
                            cache |-> reg.cache, prompts |-> t.prompts \o reg.prompts]
    IN  IF reg.exc # "none" THEN out(reg.exc, <<>>)
        ELSE IF ~t.ok THEN out("AttributeError", <<>>)
        ELSE IF found = <<>> THEN out("IndexError", <<>>)
        ELSE out("none", found[1])))

\* retrieve_names_of_subregions_of() called without a name, lines 769-772
\* and 821: [exc, names, cache, prompts]; names is the second member of the
\* pair get_region_subregion_tier returns (<<>> where that is None)
RetrieveNamesOfNoRegion(c, s, ans) ==
    With(GetTier(c, s, FALSE, TRUE, ans), LAMBDA t :
    [exc |-> "none", names |-> t.val.non, cache |-> t.cache, prompts |-> t.prompts])

RECURSIVE RetrieveEach(_, _, _, _, _)
\* "for region in check_list: res_ += self.retrieve_names_of_subregions_of(region)"
RetrieveEach(c, s, check_list, ans, m) ==
    IF check_list = <<>> THEN [exc |-> "none", names |-> <<>>, cache |-> c, prompts |-> <<>>]
    ELSE With(RetrieveShallow(c, s, Head(check_list), ans, m), LAMBDA h :
         IF h.exc # "none"
         THEN [exc |-> h.exc, names |-> <<>>, cache |-> h.cache, prompts |-> h.prompts]
         ELSE LET r == RetrieveEach(h.cache, s, Tail(check_list), ans, m)
              IN  [exc |-> r.exc, names |-> h.names \o r.names, cache |-> r.cache,
                   prompts |-> h.prompts \o r.prompts])

Reverse(q) == [i \in DOMAIN q |-> q[Len(q) + 1 - i]]

\* retrieve_names_of_subregions_of(name, deep=deep), lines 769-821:
\* [exc, names, cache, prompts].  list(set(res) - set(check_list)) has the
\* order of a set of strings, which is one of the orders of its members: with
\* the two of them that the modelled pages list at most, rev tells which
RetrieveNamesOfSubregionsOf(c, s, name, deep, ans, m, rev) ==
    LET out(exc, names, c2, asked) == [exc |-> exc, names |-> names, cache |-> c2,
                                       prompts |-> asked]
    IN  With(RetrieveShallow(c, s, name, ans, m), LAMBDA sh :
        LET res == sh.names
            check_list == SelectSeq(res, LAMBDA x : x \notin Range(sh.non))
            kept == SelectSeq(res, LAMBDA x : x \in Range(sh.non))
        IN  IF sh.exc # "none" \/ ~deep \/ check_list = <<>>
            THEN out(sh.exc, res, sh.cache, sh.prompts)
            ELSE With(RetrieveEach(sh.cache, s, check_list, ans, m), LAMBDA more :
                 IF more.exc # "none"
                 THEN out(more.exc, <<>>, more.cache, sh.prompts \o more.prompts)
                 ELSE out("none",
                          UniqueEverseen((IF rev THEN Reverse(kept) ELSE kept) \o more.names),
                          more.cache, sh.prompts \o more.prompts)))

\* line 943 without "and not update"
AlreadyAvailableWhateverUpdate(path, files, update) == path \in files

\* line 943
AlreadyAvailable(path, files, update) == path \in files /\ ~update

\* download_file_from_url without the try of lines 953-958 around it: the
\* event, and the exception that leaves the loop
DownloadUnguarded(succeeds) ==
    IF succeeds THEN [ev |-> "done", exc |-> "none"] ELSE [ev |-> "failed", exc |-> "IOError"]

\* lines 953-958: download_file_from_url inside try/except Exception
TryDownload(succeeds) ==
    IF succeeds THEN [ev |-> "done", exc |-> "none"] ELSE [ev |-> "failed", exc |-> "none"]

\* what the code prints for an event at a verbosity (lines 917-919, 944-945,
\* 953-962): "Failed" is printed whatever the verbosity
Printed(ev, verbose) ==
    CASE ev = "failed"                   -> "Failed"
      [] ev = "done" /\ verbose > 0      -> "Done"
      [] ev = "available" /\ verbose > 0 -> "already available"
      [] ev = "fallback" /\ verbose > 0  -> "not available"
      [] ev = "cancelled" /\ verbose = 2 -> "cancelled"
      [] OTHER                           -> ""

\* the body of "for sub_reg_name in subregion_name" (lines 913-962) for the
\* name q of a frame whose download_dir is dir; r holds the arguments of the
\* call, yes is the answer to the download prompt, succeeds the outcome of
\* the download
ProcessName(c, s, q, dir, deep, r, files, ans, m, rev, yes, succeeds) ==
    With(GetSubregionDownloadUrl(c, s, q, r.fmt, ans, m), LAMBDA u :
    LET out(exc, ev, path, dir2, subs, subdir, conf, c2, asked) ==
            [exc |-> exc, ev |-> ev, name |-> u.name, url |-> u.url, path |-> path,
             dir |-> dir2, subs |-> subs, subdir |-> subdir, conf |-> conf,
             cache |-> c2, prompts |-> asked]
        raise(exc, c2, asked) == out(exc, "raised", NoPath, dir, <<>>, NoDir, "none", c2, asked)
        \* what stands for a call that "if not download_dir" leaves out
        skipped(c2) == [exc |-> "none", path |-> [dir |-> dir, file |-> <<>>],
                        file |-> <<>>, cache |-> c2, prompts |-> <<>>]
    IN  IF u.exc # "none" THEN raise(u.exc, u.cache, u.prompts)
        ELSE IF u.url = NoUrl
        THEN \* lines 915-931
             With(RetrieveNamesOfSubregionsOf(u.cache, s, u.name, deep, ans, m, rev), LAMBDA sub :
             IF sub.exc # "none" THEN raise(sub.exc, sub.cache, u.prompts \o sub.prompts)
             ELSE
             With(IF dir = NoDir
                  THEN GetDefaultPathToOsmFile(sub.cache, s, u.name, ".osm.pbf", ans, m)
                  ELSE skipped(sub.cache), LAMBDA p :
             LET asked == u.prompts \o sub.prompts \o p.prompts
             IN  IF p.exc # "none" THEN raise(p.exc, p.cache, asked)
                 ELSE IF dir = NoDir /\ p.path = NoPath THEN raise("TypeError", p.cache, asked)
                 ELSE
                 With(MakeDefaultSubSubregionDownloadDir(p.cache, s, u.name, r.fmt, p.path.dir,
                                                         ans, m), LAMBDA mk :
                 IF mk.exc # "none" THEN raise(mk.exc, mk.cache, asked \o mk.prompts)
                 ELSE out("none", "fallback", NoPath, p.path.dir, sub.names, mk.dir, "none",
                          mk.cache, asked \o mk.prompts))))
        ELSE \* lines 932-962
             With(IF dir = NoDir
                  THEN GetDefaultPathToOsmFile(u.cache, s, u.name, r.fmt, ans, m)
                  ELSE GetDefaultOsmFilename(u.cache, s, u.name, r.fmt, ans, m), LAMBDA pf :
             LET asked == u.prompts \o pf.prompts
                 path == IF dir = NoDir THEN pf.path ELSE [dir |-> dir, file |-> pf.file]
                 d == TryDownload(succeeds)
             IN  IF pf.exc # "none" THEN raise(pf.exc, pf.cache, asked)
                 ELSE IF AlreadyAvailable(path, files, r.update)
                 THEN out("none", "available", path, dir, <<>>, NoDir, "none", pf.cache, asked)
                 ELSE IF Confirmed(r.confReq, yes)
                 THEN out(d.exc, d.ev, path, dir, <<>>, NoDir,
                          IF r.confReq THEN "granted" ELSE "suppressed",
                          pf.cache, asked \o Asked("download", r.confReq))
                 ELSE out("none", "cancelled", path, dir, <<>>, NoDir, "declined",
                          pf.cache, asked \o Asked("download", r.confReq))))

-----------------------------------------------------------------------------
(* Specification SpecBuild: the tier and the catalogue built from a source  *)
(* of which at most MaxFailing pages fail to load                           *)

NoFail == [p \in Pages |-> "ok"]

FailAssignments ==
    {f \in [Pages -> {"ok"} \cup FailKinds] :
        Cardinality({p \in Pages : f[p] # "ok"}) <= MaxFailing}

Sites == {[topo |-> t, fail |-> f] : t \in Topologies, f \in FailAssignments}

AllYes == [k \in Keys |-> TRUE]

PendingRes(key) == Res("pending", FALSE, NoneOf(key), EmptyCache, <<>>, 0)

Pending == [state |-> "pending", val |-> <<>>]

\* the variables of a part of the model that a specification leaves unused
IdleCompact == crawled = <<>> /\ compacted = Pending
IdleBuild == site = [topo |-> 1, fail |-> NoFail]
             /\ tierOut = PendingRes("tier") /\ catOut = PendingRes("catalogue")

NoCall == [op |-> "none", update |-> FALSE, how |-> "none", ok |-> FALSE,
           val |-> <<>>, prompts |-> <<>>, n |-> 0, again |-> FALSE, replaced |-> FALSE]

IdleCache == cache = EmptyCache /\ source = [topo |-> 3, fail |-> NoFail]
             /\ last = NoCall /\ callNo = 0

\* interval_sec=5, line 865
DefaultInterval == 5

NoRequest == [names |-> <<>>, fmt |-> ".osm.pbf", dir |-> NoDir, update |-> FALSE,
              confReq |-> TRUE, deep |-> FALSE, interval |-> DefaultInterval]

IdleDownload == req = NoRequest /\ stack = <<>> /\ onDisk = {} /\ dl = <<>>
                /\ log = <<>> /\ asks = <<>> /\ outcome = "idle"

NotApplied == [state |-> "pending"]
IdleApply == arg = [fn |-> "none"] /\ ret = NotApplied

InitBuild ==
    /\ IdleCompact /\ IdleCache /\ IdleDownload /\ IdleApply
    /\ site \in Sites
    /\ tierOut = PendingRes("tier")
    /\ catOut = PendingRes("catalogue")

\* get_region_subregion_tier(confirmation_required=False) with no pickle on
\* disk, the nested confirmation granted
BuildTier ==
    /\ tierOut.how = "pending"
    /\ tierOut' = GetTier(EmptyCache, site, FALSE, FALSE, AllYes)
    /\ UNCHANGED <<site, catOut, varsCompact, varsCache, varsDownload, varsApply>>

\* get_subregion_downloads_catalogue(confirmation_required=False) with no
\* pickle on disk
BuildCat ==
    /\ catOut.how = "pending"
    /\ catOut' = GetCatalogue(EmptyCache, site, FALSE, FALSE, AllYes)
    /\ UNCHANGED <<site, tierOut, varsCompact, varsCache, varsDownload, varsApply>>

NextBuild == BuildTier \/ BuildCat

SpecBuild == InitBuild /\ [][NextBuild]_vars

-----------------------------------------------------------------------------
(* Specification SpecCache: the getters of the five pickled artefacts,     *)
(* called one after the other while the source changes                      *)

\* the sources of this specification: two contents of the site, and the
\* first of them with the index and one listing page failing to load
CacheSites ==
    {[topo |-> 3, fail |-> NoFail], [topo |-> 2, fail |-> NoFail],
     [topo |-> 3, fail |-> [NoFail EXCEPT !["index"] = "HTTPError", !["Japan"] = "HTTPError"]]}

\* the user's answers: own to the prompt of the getter called, nested to the
\* prompt of a getter that one calls
Answers(op, own, nested) == [k \in Keys |-> IF k = op THEN own ELSE nested]

InitCache ==
    /\ IdleCompact /\ IdleBuild /\ IdleDownload /\ IdleApply
    /\ cache = EmptyCache
    /\ source \in CacheSites
    /\ last = NoCall
    /\ callNo = 0

\* a getter called by the user: the pickles it leaves, what it returned;
\* again: the call before was the same getter, without update, and returned a
\* value; replaced: the call put another value in the place of a pickle
Returned(op, update, r) ==
    /\ callNo < MaxCalls
    /\ cache' = r.cache
    /\ last' = [op |-> op, update |-> update, how |-> r.how, ok |-> r.ok,
                val |-> r.val, prompts |-> r.prompts, n |-> r.n,
                again |-> (last.op = op /\ ~last.update /\ last.ok /\ last.how # "declined"),
                replaced |-> (cache[op].present /\ r.cache[op] # cache[op])]
    /\ callNo' = callNo + 1
    /\ UNCHANGED <<source, varsCompact, varsBuild, varsDownload, varsApply>>

CallGetIndex ==
    \E update, confReq, own \in BOOLEAN :
        (confReq \/ own) /\ Returned("index", update,
                 GetIndex(cache, source, update, confReq, Answers("index", own, TRUE)))

CallGetNames ==
    \E update, confReq, own \in BOOLEAN :
        (confReq \/ own) /\ Returned("names", update,
                 GetNames(cache, source, update, confReq, Answers("names", own, TRUE)))

CallGetContinents ==
    \E update, confReq, own \in BOOLEAN :
        (confReq \/ own) /\ Returned("continents", update,
                 GetContinents(cache, source, update, confReq, Answers("continents", own, TRUE)))

CallGetTier ==
    \E update, confReq, own, nested \in BOOLEAN :
        (confReq \/ own) /\ Returned("tier", update,
                 GetTier(cache, source, update, confReq, Answers("tier", own, nested)))

CallGetCatalogue ==
    \E update, confReq, own \in BOOLEAN :
        (confReq \/ own) /\ Returned("catalogue", update,
                 GetCatalogue(cache, source, update, confReq, Answers("catalogue", own, TRUE)))

\* the site publishes other data, or pages of it start or stop failing
SourceChange ==
    /\ source' \in CacheSites \ {source}
    /\ UNCHANGED <<cache, last, callNo, varsCompact, varsBuild, varsDownload, varsApply>>

NextCache ==
    \/ CallGetIndex \/ CallGetNames \/ CallGetContinents \/ CallGetTier
    \/ CallGetCatalogue \/ SourceChange

SpecCache == InitCache /\ [][NextCache]_vars

-----------------------------------------------------------------------------
(* Specification SpecCompact: the duplicate resolution on bounded frames *)

CNames == {"Asia", "Russia"}
CUrls  == {"u1", "u2"}
CSizes == {NoSize, <<900, "kB">>, <<1, "MB">>}

\* rows as get_subregion_table yields them: the size text accompanies the
\* .osm.pbf link
CRows ==
    {[label |-> 0, Subregion |-> n, SubregionURL |-> u,
      pbf |-> IF s = NoSize THEN NoUrl ELSE [dirs |-> <<>>, file |-> <<n, ".osm.pbf">>],
      Size |-> s, shp |-> NoUrl, bz2 |-> [dirs |-> <<>>, file |-> <<n, ".osm.bz2">>]] :
        n \in CNames, u \in CUrls, s \in CSizes}

InitCompact ==
    /\ IdleBuild /\ IdleCache /\ IdleDownload /\ IdleApply
    /\ crawled \in {ConcatIgnoreIndex(rows) : rows \in SeqsUpTo(CRows, MaxRows)}
    /\ compacted = Pending

\* the tail of the catalogue build, from pd.concat to the reindexing
Compact ==
    /\ compacted.state = "pending"
    /\ LET r == CompactRows(crawled)
       IN  compacted' = IF r.ok THEN [state |-> "ok", val |-> r.val]
                        ELSE [state |-> "failed", val |-> <<>>]
    /\ UNCHANGED <<crawled, varsBuild, varsCache, varsDownload, varsApply>>

NextCompact == Compact

SpecCompact == InitCompact /\ [][NextCompact]_vars

-----------------------------------------------------------------------------
(* Specification SpecDownload: download_subregion_osm_file called once,    *)
(* one action per name processed and one per recursive call that returns  *)

\* the source of this specification, and the pickles it can find on disk:
\* all five built from the source, some of them missing, or a catalogue and
\* a tier that were built when the source listed less
Src == [topo |-> 1, fail |-> NoFail]
Older == [topo |-> 3, fail |-> NoFail]

BuiltFrom(s) ==
    LET a == GetNames(EmptyCache, s, FALSE, FALSE, AllYes).cache
        b == GetTier(a, s, FALSE, FALSE, AllYes).cache
    IN  GetCatalogue(b, s, FALSE, FALSE, AllYes).cache

FullCache == BuiltFrom(Src)

Without(c, ks) == [k \in Keys |-> IF k \in ks THEN AbsentOf(k) ELSE c[k]]

DownloadCaches ==
    {FullCache, Without(FullCache, {"catalogue"}), Without(FullCache, {"names"}),
     Without(FullCache, {"tier", "continents"}),
     [FullCache EXCEPT !["catalogue"] = BuiltFrom(Older)["catalogue"],
                       !["tier"] = BuiltFrom(Older)["tier"]]}

Queries == {"Europe", "GB", "London", "Wales", "Japan", "bogus"}
GivenDir == <<<<"out">>>>

\* the names of a call: one name, or one name and a region that offers the
\* .osm.pbf file after it
Batches == {<<a>> : a \in Queries} \cup {<<a, b>> : a \in Queries, b \in {"London", "Wales"}}

Requests ==
    {[names |-> ns, fmt |-> f, dir |-> d, update |-> u, confReq |-> cr, deep |-> dp,
      interval |-> iv] :
        ns \in Batches, f \in {".osm.pbf", ".shp.zip"}, d \in {NoDir, GivenDir},
        u \in BOOLEAN, cr \in BOOLEAN, dp \in BOOLEAN, iv \in {0, DefaultInterval}}

\* every file the source offers, at its default path and in the given
\* directory
AllTargets ==
    {GetDefaultPathToOsmFile(FullCache, Src, n, f, AllYes, None).path :
        n \in {x \in Regions : Offers(x, ".osm.pbf")}, f \in {".osm.pbf"}}
    \cup {GetDefaultPathToOsmFile(FullCache, Src, n, f, AllYes, None).path :
            n \in {x \in Regions : Offers(x, ".shp.zip")}, f \in {".shp.zip"}}
    \cup {[dir |-> GivenDir, file |-> UrlOf(nf[1], nf[2]).file] :
            nf \in {x \in Regions \X {".osm.pbf", ".shp.zip"} : Offers(x[1], x[2])}}

InitDownload ==
    /\ IdleCompact /\ IdleBuild /\ IdleApply
    /\ \/ cache \in DownloadCaches /\ onDisk = {}
       \/ cache = FullCache /\ onDisk = AllTargets
    /\ source = Src
    /\ last = NoCall
    /\ callNo = 0
    /\ req = NoRequest
    /\ stack = <<>>
    /\ dl = <<>>
    /\ log = <<>>
    /\ asks = <<>>
    /\ outcome = "idle"

\* a frame of download_subregion_osm_file: its names, the one it is at, its
\* download_dir, the region whose fallback called it, its deep_retry and its
\* interval_sec
Frame(names, dir, from, deep, interval) ==
    [names |-> names, i |-> 1, dir |-> dir, from |-> from, deep |-> deep,
     interval |-> interval]

\* the user calls download_subregion_osm_file
Call ==
    /\ outcome = "idle"
    /\ \E r \in Requests :
        /\ req' = r
        /\ stack' = <<Frame(r.names, r.dir, None, r.deep, r.interval)>>
    /\ outcome' = "running"
    /\ UNCHANGED <<onDisk, dl, log, asks, varsCompact, varsBuild, varsCache, varsApply>>

Top == stack[Len(stack)]

\* what is logged for the name a frame is at
Entry(depth, ev, q, name, path, conf, existed, secs) ==
    [ev |-> ev, depth |-> depth, top |-> stack[1].i, idx |-> stack[depth].i, q |-> q,
     name |-> name, path |-> path, conf |-> conf, existed |-> existed, secs |-> secs]

\* the loop without its lines 964-965
SleepNever(depth) == <<>>

\* lines 964-965
Sleep(depth) ==
    IF stack[depth].interval # 0
    THEN <<Entry(depth, "sleep", stack[depth].names[stack[depth].i], NoName, NoPath, "none",
                 FALSE, stack[depth].interval)>>
    ELSE <<>>

\* the answers the user can give to the getters' prompts: a getter whose
\* pickle exists does not ask, and the index is fetched without asking
AnswersFor(c) ==
    {a \in [Keys -> BOOLEAN] : \A k \in Keys : (c[k].present \/ k = "index") => a[k]}

\* what find_similar_str can make of a query that names no region: nothing,
\* or one of two regions of the list
SimilarChoices(q) == IF q \in Regions THEN {None} ELSE {None, "London", "Japan"}

\* one round of the loop over the names of the innermost frame
Step ==
    /\ outcome = "running"
    /\ stack # <<>>
    /\ Top.i <= Len(Top.names)
    /\ \E ans \in AnswersFor(cache), m \in SimilarChoices(Top.names[Top.i]),
          rev \in (IF Top.deep THEN BOOLEAN ELSE {FALSE}),
          yes \in (IF req.confReq THEN BOOLEAN ELSE {TRUE}), succeeds \in BOOLEAN :
        \E p \in {ProcessName(cache, source, Top.names[Top.i], Top.dir, Top.deep, req, onDisk,
                             ans, m, rev, yes, succeeds)} :
        LET q == Top.names[Top.i]
            d == Len(stack)
            e == Entry(d, p.ev, q, p.name, p.path, p.conf, p.path \in onDisk, 0)
            called == p.ev \in {"done", "failed"}
        IN  /\ cache' = p.cache
            /\ asks' = asks \o p.prompts
            /\ dl' = IF called
                     THEN Append(dl, [at |-> Len(log) + 1, name |-> p.name, url |-> p.url,
                                      path |-> p.path, ok |-> p.ev = "done"])
                     ELSE dl
            /\ onDisk' = IF p.ev = "done" THEN onDisk \cup {p.path} ELSE onDisk
            /\ IF p.exc # "none"
               THEN /\ outcome' = p.exc
                    /\ stack' = <<>>
                    /\ log' = Append(log, e)
               ELSE IF p.ev = "fallback"
               THEN /\ log' = Append(log, e)
                    /\ IF d >= RecursionLimit
                       THEN outcome' = "RecursionError" /\ stack' = <<>>
                       ELSE /\ outcome' = outcome
                            /\ stack' = Append([stack EXCEPT ![d].dir = p.dir],
                                               Frame(p.subs, p.subdir, p.name, FALSE,
                                                     DefaultInterval))
               ELSE /\ outcome' = outcome
                    /\ log' = Append(log, e) \o Sleep(d)
                    /\ stack' = [stack EXCEPT ![d].i = @ + 1]
    /\ UNCHANGED <<req, source, last, callNo, varsCompact, varsBuild, varsApply>>

\* the loop of the innermost frame is over: the call returns, to the user or
\* to the frame that fell back to the subregions, which sleeps and goes on
Return ==
    /\ outcome = "running"
    /\ stack # <<>>
    /\ Top.i > Len(Top.names)
    /\ IF Len(stack) = 1
       THEN outcome' = "returned" /\ stack' = <<>> /\ log' = log
       ELSE /\ outcome' = outcome
            /\ log' = log \o Sleep(Len(stack) - 1)
            /\ stack' = [SubSeq(stack, 1, Len(stack) - 1) EXCEPT ![Len(stack) - 1].i = @ + 1]
    /\ UNCHANGED <<req, onDisk, dl, asks, varsCompact, varsBuild, varsCache, varsApply>>

NextDownload == Call \/ Step \/ Return

SpecDownload == InitDownload /\ [][NextDownload]_vars

-----------------------------------------------------------------------------
(* Specification SpecRetrieve: retrieve_names_of_subregions_of applied to   *)
(* one name, the five pickles built from the source                         *)

\* the sources whose hierarchy can be compiled: every topology but the cyclic
AcyclicTopologies == 1..5

RetrieveArgs ==
    {[fn |-> "retrieve", topo |-> t, name |-> n, deep |-> d, rev |-> rv] :
        t \in AcyclicTopologies, n \in Regions, d \in BOOLEAN, rv \in BOOLEAN}
    \cup {[fn |-> "retrieve_all", topo |-> t, name |-> NoName, deep |-> d, rev |-> FALSE] :
            t \in AcyclicTopologies, d \in BOOLEAN}

InitRetrieve ==
    /\ IdleCompact /\ IdleBuild /\ IdleCache /\ IdleDownload
    /\ arg \in RetrieveArgs
    /\ ret = NotApplied

Retrieve ==
    /\ ret = NotApplied
    /\ arg.fn = "retrieve"
    /\ \E s \in {[topo |-> arg.topo, fail |-> NoFail]} :
       \E r \in {RetrieveNamesOfSubregionsOf(BuiltFrom(s), s, arg.name, arg.deep, AllYes,
                                             None, arg.rev)} :
           ret' = [state |-> "done", exc |-> r.exc, names |-> r.names]
    /\ UNCHANGED <<arg, varsCompact, varsBuild, varsCache, varsDownload>>

\* the function called without a name; deep is not looked at
RetrieveAll ==
    /\ ret = NotApplied
    /\ arg.fn = "retrieve_all"
    /\ \E s \in {[topo |-> arg.topo, fail |-> NoFail]} :
       \E r \in {RetrieveNamesOfNoRegion(BuiltFrom(s), s, AllYes)} :
           ret' = [state |-> "done", exc |-> r.exc, names |-> r.names]
    /\ UNCHANGED <<arg, varsCompact, varsBuild, varsCache, varsDownload>>

NextRetrieve == Retrieve \/ RetrieveAll

SpecRetrieve == InitRetrieve /\ [][NextRetrieve]_vars

-----------------------------------------------------------------------------
(* Specification SpecPath: the directory names get_default_path_to_osm_file *)
(* makes of the segments of a URL path                                      *)

\* segments of URL paths: "us" in its four spellings, and two regions
UrlSegments == {"us", "US", "Us", "uS", "asia", "japan"}
MaxSegments == 2

PathArgs ==
    {[fn |-> "path", parsed |-> ps, m |-> m] :
        ps \in SeqsUpTo(UrlSegments, MaxSegments) \ {<<>>}, m \in {None, "Asia", "Japan"}}

InitPath ==
    /\ IdleCompact /\ IdleBuild /\ IdleCache /\ IdleDownload
    /\ arg \in PathArgs
    /\ ret = NotApplied

MakePath ==
    /\ ret = NotApplied
    /\ arg.fn = "path"
    /\ ret' = [state |-> "done",
               segs |-> PathSegments(arg.parsed, IndexNames(Src.topo), arg.m)]
    /\ UNCHANGED <<arg, varsCompact, varsBuild, varsCache, varsDownload>>

NextPath == MakePath

SpecPath == InitPath /\ [][NextPath]_vars

-----------------------------------------------------------------------------
(* Specification SpecDrain: one invocation of compile_region_subregion_tier, *)
(* its while loop and its for loop step by step (lines 433-447)              *)

MaxExpansions == 4      \* expansions of one invocation that are modelled

\* the invocations: the site, and the page whose listed regions make the dict
\* the invocation is given; the page loads and so do the pages it lists
DrainArgs ==
    {[fn |-> "compile", site |-> s, page |-> pg] : s \in Sites, pg \in {"home"} \cup Regions}

Invoked(a) ==
    /\ a.site.fail[a.page] = "ok"
    /\ Listed(a.site.topo, a.page) # <<>>
    /\ ~TablesOf(a.site, Column(TableOn(a.site.topo, a.page), SubregionURLOf)).raised

InitDrain ==
    /\ IdleCompact /\ IdleBuild /\ IdleCache /\ IdleDownload
    /\ arg \in {a \in DrainArgs : Invoked(a)}
    /\ ret = NotApplied

\* having_subregions of the invocation
Having == HavingSubregions(SubRegTblsOn(arg.site, arg.page))

\* lines 420-433: the invocation starts; having_subregions_temp is a copy of
\* having_subregions, of which the keys are kept here
EnterCompile ==
    /\ arg.fn = "compile"
    /\ ret = NotApplied
    /\ ret' = [state |-> "running", pc |-> "while", i |-> 1, exc |-> "none",
               temp |-> [k \in DOMAIN Having |-> Having[k][1]], expanded |-> <<>>]
    /\ UNCHANGED <<arg, varsCompact, varsBuild, varsCache, varsDownload>>

\* line 435: "while having_subregions_temp"; when it is empty the
\* invocation goes on to line 450 and returns
WhileTest ==
    /\ arg.fn = "compile"
    /\ ret # NotApplied /\ ret.state = "running" /\ ret.pc = "while"
    /\ ret' = IF ret.temp = <<>> THEN [ret EXCEPT !.state = "returned"]
              ELSE [ret EXCEPT !.pc = "for", !.i = 1]
    /\ UNCHANGED <<arg, varsCompact, varsBuild, varsCache, varsDownload>>

\* lines 437-447 for one entry of having_subregions: the pages of its
\* subregions are fetched and compiled, and its key is popped from
\* having_subregions_temp (KeyError when the key is not there)
ExpandRegion ==
    /\ arg.fn = "compile"
    /\ ret # NotApplied /\ ret.state = "running" /\ ret.pc = "for"
    /\ ret.i <= Len(Having)
    /\ Len(ret.expanded) < MaxExpansions
    /\ \E h \in {Having[ret.i]} :
       \E sub \in {CompileEach(arg.site, <<h>>, 1, RecursionLimit)} :
           ret' = IF sub.raised
                  THEN [ret EXCEPT !.state = "raised", !.exc = "Exception"]
                  ELSE IF h[1] \notin Range(ret.temp)
                  THEN [ret EXCEPT !.state = "raised", !.exc = "KeyError",
                                   !.expanded = Append(@, h[1])]
                  ELSE [ret EXCEPT !.expanded = Append(@, h[1]),
                                   !.temp = PopRegion(@, h[1]), !.i = @ + 1]
    /\ UNCHANGED <<arg, varsCompact, varsBuild, varsCache, varsDownload>>

\* the for loop of line 437 is over: back to the test of line 435
EndFor ==
    /\ arg.fn = "compile"
    /\ ret # NotApplied /\ ret.state = "running" /\ ret.pc = "for"
    /\ ret.i > Len(Having)
    /\ ret' = [ret EXCEPT !.pc = "while"]
    /\ UNCHANGED <<arg, varsCompact, varsBuild, varsCache, varsDownload>>

NextDrain == EnterCompile \/ WhileTest \/ ExpandRegion \/ EndFor

SpecDrain == InitDrain /\ [][NextDrain]_vars

-----------------------------------------------------------------------------
(* Specification SpecAssemble: the frame get_subregion_downloads_catalogue  *)
(* has assembled when it comes to the rows that share a name (line 551)     *)

AssembleArgs == {[fn |-> "assemble", site |-> s] : s \in Sites}

InitAssemble ==
    /\ IdleCompact /\ IdleBuild /\ IdleCache /\ IdleDownload
    /\ arg \in AssembleArgs
    /\ ret = NotApplied

\* lines 515-549 on the site
Assemble ==
    /\ arg.fn = "assemble"
    /\ ret = NotApplied
    /\ \E a \in {AssembleCatalogue(arg.site)} :
           ret' = [state |-> "done", how |-> a.how, val |-> a.val, raw |-> a.raw]
    /\ UNCHANGED <<arg, varsCompact, varsBuild, varsCache, varsDownload>>

NextAssemble == Assemble

SpecAssemble == InitAssemble /\ [][NextAssemble]_vars

-----------------------------------------------------------------------------
(* Claims on the duplicate resolution *)

RowsNamed(df, n) == {i \in DOMAIN df : df[i].Subregion = n}

\* the rows of the crawled frame that are not in the compacted one
Discarded(n) ==
    {i \in RowsNamed(crawled, n) :
        \A k \in DOMAIN compacted.val : Cols(compacted.val[k]) # Cols(crawled[i])}

SizeAtLeast(a, b) == a # NoSize /\ (b # NoSize => ParseSize(a) >= ParseSize(b))

\* C2: when two crawled rows share a Subregion name, the catalogue that the
\* build returns keeps exactly one row of that name (never none, never both),
\* and that row's parsed .osm.pbf size is at least the size of every discarded
\* row of the name.
C2_KeepsExactlyTheLargest ==
    compacted.state = "ok" =>
        \A n \in CNames :
            Cardinality(RowsNamed(crawled, n)) >= 2 =>
                /\ Cardinality(RowsNamed(compacted.val, n)) = 1
                /\ \A k \in RowsNamed(compacted.val, n) : \A i \in Discarded(n) :
                       SizeAtLeast(compacted.val[k].Size, crawled[i].Size)

\* C3: in every returned catalogue no two rows carry the same Subregion name.
C3_SubregionUnique ==
    compacted.state = "ok" =>
        \A i, j \in DOMAIN compacted.val :
            compacted.val[i].Subregion = compacted.val[j].Subregion => i = j

-----------------------------------------------------------------------------
(* Claims on the cached artefacts *)

\* a step that is a getter call
IsCall == callNo' # callNo

\* C5 as stated: of two successive calls of get_subregion_downloads_catalogue
\* without update, the second returns what the first returned and fetches no
\* page.
C5_TwiceIdentical ==
    [][(IsCall /\ last.op = "catalogue" /\ ~last.update
          /\ last'.op = "catalogue" /\ ~last'.update) =>
            (last'.ok = last.ok /\ last'.val = last.val /\ last'.n = 0)]_vars

\* C5 amended: when a call of get_subregion_downloads_catalogue without update
\* returned a catalogue, the next call without update returns the identical
\* catalogue, taken from the pickle, and fetches no page.
C5_TwiceIdenticalOnceReturned ==
    [][(IsCall /\ last.op = "catalogue" /\ ~last.update /\ last.ok
          /\ last'.op = "catalogue" /\ ~last'.update) =>
            (last'.ok /\ last'.val = last.val /\ last'.n = 0
               /\ last'.val = cache["catalogue"].val /\ cache' = cache)]_vars

\* a second call without update was served after a first one that built the
\* catalogue and returned it
C5_Witness ==
    /\ last.op = "catalogue" /\ last.again /\ ~last.update
    /\ last.ok /\ last.val # <<>> /\ last.n = 0

\* what the getter of an artefact builds from source s when nothing is cached
Fresh(op, s) ==
    CASE op = "index"      -> GetIndex(EmptyCache, s, TRUE, FALSE, AllYes)
      [] op = "names"      -> GetNames(EmptyCache, s, TRUE, FALSE, AllYes)
      [] op = "continents" -> GetContinents(EmptyCache, s, TRUE, FALSE, AllYes)
      [] op = "tier"       -> GetTier(EmptyCache, s, TRUE, FALSE, AllYes)
      [] OTHER             -> GetCatalogue(EmptyCache, s, TRUE, FALSE, AllYes)

\* a call without update of a getter whose pickle exists returns the pickled
\* value, fetches nothing and leaves the pickles alone
ReusedWithoutUpdate ==
    (cache[last'.op].present /\ ~last'.update) =>
        (last'.ok /\ last'.val = cache[last'.op].val /\ last'.n = 0 /\ cache' = cache)

\* C6 as stated: a pickle is reused by every call without update, and a call
\* with update=True rebuilds from the source and overwrites the pickle with
\* the rebuilt value.
C6_UpdateAlwaysRebuilds ==
    [][IsCall =>
        /\ ReusedWithoutUpdate
        /\ last'.update =>
              (last'.ok /\ last'.val = Fresh(last'.op, source).val
                 /\ cache'[last'.op] = Stored(last'.val))]_vars

\* C6 amended: a pickle is reused by every call without update; a call with
\* update=True never takes its result from the pickle: when the confirmation
\* is granted or suppressed and the rebuild succeeds, it returns the value
\* rebuilt from the source and overwrites the pickle with it, otherwise it
\* returns None (the empty list for the name list, or raises) and leaves the
\* pickle as it was.
C6_UpdateRebuildsWhenConfirmed ==
    [][IsCall =>
        /\ ReusedWithoutUpdate
        /\ last'.update =>
              IF last'.how = "built"
              THEN /\ last'.ok /\ last'.n > 0
                   /\ last'.val = Fresh(last'.op, source).val
                   /\ cache'[last'.op] = Stored(last'.val)
              ELSE /\ last'.how \in {"declined", "failed", "raised"}
                   /\ last'.val = NoneOf(last'.op)
                   /\ cache'[last'.op] = cache[last'.op]]_vars

\* a call with update=True has put a rebuilt value in the place of a pickle
\* that held another value
C6_Witness ==
    /\ last.update /\ last.how = "built" /\ last.replaced
    /\ cache[last.op] = Stored(last.val)

-----------------------------------------------------------------------------
(* Claims on the tier build *)

RECURSIVE FetchedBelow(_, _, _)
\* the pages the tier build asks for below the pages in from, fuel levels deep
FetchedBelow(s, from, fuel) ==
    IF fuel = 0 \/ from = {} THEN {}
    ELSE LET listed == UNION {Range(Listed(s.topo, p)) : p \in {q \in from : s.fail[q] = "ok"}}
         IN  listed \cup FetchedBelow(s, listed, fuel - 1)

\* the sub-pages compile_region_subregion_tier fetches: those listed on the
\* pages of the continents and below
SubPages(s) == FetchedBelow(s, Range(Listed(s.topo, "home")), Cardinality(Regions))

FailingPages(s) == {p \in Pages : s.fail[p] # "ok"}

\* C7: when the only pages that fail to load are sub-pages fetched during the
\* hierarchy build, the build returns a hierarchy, and every such page is
\* recorded in the no-subregions list.
C7_SubPageFailureMakesLeaf ==
    (tierOut.how # "pending" /\ FailingPages(site) # {}
        /\ FailingPages(site) \subseteq SubPages(site)) =>
            /\ tierOut.ok
            /\ FailingPages(site) \subseteq Range(tierOut.val.non)

-----------------------------------------------------------------------------
(* Claims on the download orchestrator *)

\* the events that end the processing of a name whose file URL is available
ItemEvents == {"available", "done", "failed", "cancelled"}

\* the downloader calls made for the name of log entry i
CallsAt(i) == {k \in DOMAIN dl : dl[k].at = i}

Verbosity == {0, 1, 2}

\* C1: the call terminates for every request, and when the requested format
\* has no URL for a region that is a leaf of the hierarchy, the fallback stops
\* at that region: the frame the fallback opens does not request the same
\* region again.
C1_LeafFallbackStops ==
    /\ outcome # "RecursionError"
    /\ \A k \in 2..Len(stack) :
          stack[k].from \in Range(cache["tier"].val.non) =>
              stack[k].from \notin Range(stack[k].names)

\* C4: for a name whose file URL is available and whose target file exists,
\* a call with update=False makes no downloader call and leaves the file in
\* place; a call with update=True does not skip the name, and unless the
\* confirmation is declined it makes exactly one downloader call, for that
\* name's URL and path.
C4_ExistingFileSkippedOrUpdatedOnce ==
    \A i \in DOMAIN log :
        (log[i].ev \in ItemEvents /\ log[i].existed) =>
            /\ ~req.update =>
                  (log[i].ev = "available" /\ CallsAt(i) = {} /\ log[i].path \in onDisk)
            /\ req.update =>
                  /\ log[i].conf \in {"granted", "suppressed", "declined"}
                  /\ ~req.confReq => log[i].conf = "suppressed"
                  /\ log[i].conf = "declined" => CallsAt(i) = {}
                  /\ log[i].conf \in {"granted", "suppressed"} =>
                        /\ Cardinality(CallsAt(i)) = 1
                        /\ \A k \in CallsAt(i) :
                              dl[k].path = log[i].path /\ dl[k].name = log[i].name

\* a call with update=False has returned after it skipped a name whose file
\* was on disk, without any downloader call for it
C4_Witness ==
    /\ outcome = "returned" /\ ~req.update
    /\ \E i \in DOMAIN log :
          log[i].ev = "available" /\ log[i].existed /\ CallsAt(i) = {}

\* C8: an exception leaves download_subregion_osm_file only when a requested
\* name cannot be resolved.
C8_OnlyUnresolvedNameRaises ==
    \/ outcome \in {"idle", "running", "returned"}
    \/ outcome = "ValueError" /\ log[Len(log)].name = None

\* C9: when the resolver finds no match for a requested name, the call ends
\* there with the ValueError of get_subregion_download_url, and no downloader
\* call is made for that name or for a later one.
C9_UnresolvedNameRaises ==
    \A i \in DOMAIN log :
        log[i].name = None =>
            /\ log[i].ev = "raised" /\ outcome = "ValueError"
            /\ i = Len(log) /\ stack = <<>>
            /\ \A k \in DOMAIN dl : dl[k].at < i

\* the first of two names was not resolved: the call raised there, and the
\* second name got no download
C9_Witness ==
    /\ outcome = "ValueError" /\ Len(req.names) > 1
    /\ log # <<>> /\ log[Len(log)].name = None /\ log[Len(log)].idx = 1
    /\ dl = <<>>

\* C10: when download_file_from_url fails for a name, the call prints
\* "Failed" for it at every verbosity, raises nothing and is next at the name
\* after it.
C10_DownloadFailureIsReported ==
    [][(Len(dl') > Len(dl) /\ ~dl'[Len(dl')].ok) =>
          /\ outcome' = "running"
          /\ Len(stack') = Len(stack)
          /\ stack'[Len(stack)].i = stack[Len(stack)].i + 1
          /\ log'[Len(log) + 1].ev = "failed"
          /\ \A v \in Verbosity : Printed(log'[Len(log) + 1].ev, v) = "Failed"]_vars

\* a download failed for the first name of a call, the next name was
\* processed and the call returned
C10_Witness ==
    /\ outcome = "returned"
    /\ \E i, j \in DOMAIN log :
          /\ i < j /\ log[i].ev = "failed" /\ log[j].ev \in ItemEvents
          /\ log[j].depth = log[i].depth /\ log[j].idx = log[i].idx + 1

-----------------------------------------------------------------------------
(* Claims on the names of the subregions *)

\* the regions a region's page lists
Children(t, n) == Range(Listed(t, n))

RECURSIVE LeafDescendants(_, _, _)
\* the regions below n whose pages list nothing, at most fuel levels down
LeafDescendants(t, n, fuel) ==
    IF Children(t, n) = {} THEN {n}
    ELSE IF fuel = 0 THEN {}
    ELSE UNION {LeafDescendants(t, c, fuel - 1) : c \in Children(t, n)}

\* C11: for a region that has subregions, retrieve_names_of_subregions_of
\* with deep=True returns exactly the leaf regions below it, whatever the
\* depth of the hierarchy, and with deep=False exactly its immediate children.
C11_DeepReachesEveryLeaf ==
    (arg.fn = "retrieve" /\ ret # NotApplied /\ ret.exc = "none"
        /\ Children(arg.topo, arg.name) # {}) =>
            Range(ret.names) = IF arg.deep
                               THEN LeafDescendants(arg.topo, arg.name, Cardinality(Regions))
                               ELSE Children(arg.topo, arg.name)

-----------------------------------------------------------------------------
(* Claims on the fallback to the subregions *)

\* the places of the log where the name c is requested in a nested call
RequestedBelow(c) ==
    {i \in DOMAIN log : log[i].ev # "sleep" /\ log[i].depth > 1 /\ log[i].q = c}

\* C12: when download_subregion_osm_file is called for one region whose
\* format has no direct URL, no immediate child of the region is requested a
\* second time in the nested calls, and once the call has returned every
\* immediate child has been requested exactly once.
C12_EachChildRequestedOnce ==
    (Len(req.names) = 1 /\ log # <<>> /\ log[1].ev = "fallback") =>
        \A c \in Children(source.topo, log[1].name) :
            /\ Cardinality(RequestedBelow(c)) <= 1
            /\ outcome = "returned" => Cardinality(RequestedBelow(c)) = 1

\* the directory a is b or lies above b
IsPrefix(a, b) == Len(a) <= Len(b) /\ SubSeq(b, 1, Len(a)) = a

\* C13: when download_subregion_osm_file is called with a download_dir,
\* every file the call saves lies inside that download_dir, and so does the
\* directory handed to the nested calls for the subregions.
C13_SavedInsideDownloadDir ==
    req.dir # NoDir =>
        /\ \A k \in DOMAIN dl : dl[k].ok => IsPrefix(req.dir, dl[k].path.dir)
        /\ \A d \in DOMAIN stack : IsPrefix(req.dir, stack[d].dir)

-----------------------------------------------------------------------------
(* Claims on the default path *)

\* "us" in any letter case
IsUs(x) == x \in {"us", "US", "Us", "uS"}

\* C14: a segment of the URL path that is "us" in any letter case becomes
\* "United States" in the directory path, whatever the approximate matching
\* would make of it.
C14_UsInAnyCaseIsUnitedStates ==
    (arg.fn = "path" /\ ret # NotApplied) =>
        \A i \in DOMAIN arg.parsed : IsUs(arg.parsed[i]) => ret.segs[i] = "United States"

-----------------------------------------------------------------------------
(* Claims on the delay between the names *)

\* the places of the log where a name of the user's call is processed
TopNames == {i \in DOMAIN log : log[i].ev # "sleep" /\ log[i].depth = 1}

\* the sleeps of the user's call
TopSleeps == {k \in DOMAIN log : log[k].ev = "sleep" /\ log[k].depth = 1}

\* C15: between the processing of two names of a call, the call sleeps for
\* its interval_sec, and it never sleeps for another time; an interval_sec of
\* zero is no sleep at all.
C15_SleepsBetweenNames ==
    /\ \A k \in TopSleeps : log[k].secs = req.interval /\ req.interval # 0
    /\ req.interval # 0 =>
          \A i, j \in TopNames : i < j => \E k \in TopSleeps : i < k /\ k < j

\* a call with a delay has returned; its first name fell back to the
\* subregions, and it slept before its second name
C15_Witness ==
    /\ outcome = "returned" /\ req.interval # 0
    /\ \E i, j \in TopNames :
          /\ i < j /\ log[i].ev = "fallback"
          /\ \E k \in TopSleeps : i < k /\ k < j /\ log[k].secs = req.interval

-----------------------------------------------------------------------------
(* Claims on the confirmations *)

\* C16: a call of download_subregion_osm_file with
\* confirmation_required=False asks for no confirmation, also not in the
\* getters it calls when their pickles are absent.
C16_SuppressedAsksNothing ==
    (outcome # "idle" /\ ~req.confReq) => asks = <<>>

-----------------------------------------------------------------------------
(* Claims on the hierarchy *)

RECURSIVE NamesIn(_)
\* the keys of a tier dict and of the dicts nested in it, in order
NamesIn(tier) ==
    IF tier = <<>> THEN <<>>
    ELSE <<Head(tier)[1]>>
         \o (IF Head(tier)[2].leaf THEN <<>> ELSE NamesIn(Head(tier)[2].sub))
         \o NamesIn(Tail(tier))

\* C18: in the hierarchy get_region_subregion_tier returns, every region
\* name is at one place of the tree only.
C18_NameAtOnePlace ==
    tierOut.how = "built" =>
        LET names == NamesIn(tierOut.val.tier)
        IN  \A i, j \in DOMAIN names : names[i] = names[j] => i = j

RECURSIVE NamesOfKind(_, _)
\* the keys of the tree whose value is None (leaf) or a dict (not leaf)
NamesOfKind(tier, leaf) ==
    IF tier = <<>> THEN {}
    ELSE (IF Head(tier)[2].leaf = leaf THEN {Head(tier)[1]} ELSE {})
         \cup (IF Head(tier)[2].leaf THEN {} ELSE NamesOfKind(Head(tier)[2].sub, leaf))
         \cup NamesOfKind(Tail(tier), leaf)

-----------------------------------------------------------------------------
(* Claims on the crawl of the catalogue *)

\* C20: the crawl of get_subregion_downloads_catalogue ends on every source,
\* also on one whose listing pages refer to each other in a cycle.
C20_CrawlTerminates ==
    catOut.how # "diverged"

-----------------------------------------------------------------------------
(* Claims on the recursion of the hierarchy build *)

\* C21: on a source of which every page loads, the hierarchy build ends with
\* a hierarchy, also when a listing page lists an ancestor of its region: a
\* name already visited is not descended into again.
C21_TierBuiltOnEverySource ==
    (tierOut.how # "pending" /\ site.fail = NoFail) => tierOut.how = "built"

-----------------------------------------------------------------------------
(* Claims on the hierarchy and the catalogue of one source *)

\* the Subregion names of the catalogue that was built
CatalogueNames == {catOut.val[i].Subregion : i \in DOMAIN catOut.val}

\* C22: for a hierarchy and a catalogue built from the same source, every
\* name of the hierarchy that has children is the Subregion of a row of the
\* catalogue, and the names without children are exactly the other Subregion
\* names of the catalogue.
C22_TierAgreesWithCatalogue ==
    (tierOut.how = "built" /\ catOut.how = "built") =>
        /\ NamesOfKind(tierOut.val.tier, FALSE) \subseteq CatalogueNames
        /\ NamesOfKind(tierOut.val.tier, TRUE)
              = CatalogueNames \ NamesOfKind(tierOut.val.tier, FALSE)

-----------------------------------------------------------------------------
(* Claims on the independence of the pickles *)

\* C23: a call of the getter of one artefact, with or without update, leaves
\* the pickles of the other four artefacts as they are.
C23_OtherPicklesUntouched ==
    [][IsCall => \A k \in Keys \ {last'.op} : cache'[k] = cache[k]]_vars

-----------------------------------------------------------------------------
(* Claims on the names returned for no region *)

\* the regions of the hierarchy of topology t that have subregions
WithSubregions(t) ==
    NamesOfKind(BuiltFrom([topo |-> t, fail |-> NoFail])["tier"].val.tier, FALSE)

\* C24: called with no region name, retrieve_names_of_subregions_of returns
\* all the regions that do have subregions.
C24_NoNameGivesRegionsWithSubregions ==
    (arg.fn = "retrieve_all" /\ ret # NotApplied) =>
        Range(ret.names) = WithSubregions(arg.topo)

-----------------------------------------------------------------------------
(* Claims on the failure of the duplicate resolution *)

\* C25: when rows of the crawled frame share a Subregion name, the build
\* resolves them and yields a catalogue; it does not fail, also when a row
\* of a shared name has no size.
C25_DuplicatesNeverFail ==
    (compacted.state # "pending" /\ Duplicated(crawled) # <<>>) => compacted.state = "ok"

-----------------------------------------------------------------------------
(* Claims on a declined download *)

\* the verbosities at which a download that succeeded and one that failed
\* are both reported
ReportingVerbosities ==
    {v \in Verbosity : Printed("done", v) # "" /\ Printed("failed", v) # ""}

\* the name of log entry i was processed without an exception, and the loop
\* went on to the name after it
WentOn(i) ==
    /\ log[i].ev # "raised"
    /\ \A j \in DOMAIN log :
          (j > i /\ log[j].ev # "sleep" /\ log[j].depth = log[i].depth
             /\ \A k \in (i + 1)..(j - 1) : log[k].depth >= log[i].depth) =>
                log[j].idx > log[i].idx

\* C26: when the confirmation to download an item is declined, no downloader
\* call is made for it, nothing is raised, the loop goes on with the next
\* name, and at every verbosity that reports success and failure the item
\* is reported with a status that is neither of the two.
C26_DeclinedIsReportedAsSkipped ==
    \A i \in DOMAIN log :
        log[i].conf = "declined" =>
            /\ CallsAt(i) = {}
            /\ WentOn(i)
            /\ \A v \in ReportingVerbosities :
                  Printed(log[i].ev, v) \notin {"", Printed("done", v), Printed("failed", v)}

-----------------------------------------------------------------------------
(* Claims on when a pickle is written *)

\* C27: a getter writes its pickle only after a rebuild that succeeded: when
\* the confirmation is declined or the rebuild raises, the pickle of the
\* getter is left as it was, with update=True as well.
C27_WrittenOnlyAfterRebuild ==
    [][IsCall =>
        /\ cache'[last'.op] # cache[last'.op] => last'.how = "built"
        /\ last'.how \in {"declined", "failed", "raised"} =>
              cache'[last'.op] = cache[last'.op]]_vars

\* a getter called with update=True did not rebuild its artefact, the page
\* it needs failing to load, and its pickle is on disk with a value
C27_Witness ==
    /\ last.update /\ last.how = "failed" /\ last.n > 0
    /\ cache[last.op].present /\ cache[last.op].val # NoneOf(last.op)

-----------------------------------------------------------------------------
(* Claims on the order of the no-subregions list *)

RECURSIVE RecordedIn(_), RecordedBelow(_)
\* the names the traversal of a tier dict records as having no subregions,
\* in the order it records them: the keys of the dict without children,
\* then what is recorded in the dict of each key that has children
RecordedIn(tier) ==
    PickIdx([i \in DOMAIN tier |-> tier[i][1]], {i \in DOMAIN tier : tier[i][2].leaf}, 1)
    \o RecordedBelow(tier)

RecordedBelow(tier) ==
    IF tier = <<>> THEN <<>>
    ELSE (IF Head(tier)[2].leaf THEN <<>> ELSE RecordedIn(Head(tier)[2].sub))
         \o RecordedBelow(Tail(tier))

\* the place at which x is in the sequence q for the first time
FirstAt(q, x) == Min({i \in DOMAIN q : q[i] = x})

\* C28: the no-subregions list of the hierarchy build holds no name twice,
\* and its names are in the order in which the traversal recorded them for
\* the first time.
C28_NonListUniqueInFirstSeenOrder ==
    tierOut.how = "built" =>
        LET non == tierOut.val.non
            rec == RecordedIn(tierOut.val.tier)
        IN  /\ \A i, j \in DOMAIN non : non[i] = non[j] => i = j
            /\ Range(non) = Range(rec)
            /\ \A i, j \in DOMAIN non :
                  i < j => FirstAt(rec, non[i]) < FirstAt(rec, non[j])

\* a hierarchy was built in which Russia is recorded under Asia and under
\* Europe, with a name recorded between the two: the list has it once, before
\* that name
C28_Witness ==
    /\ tierOut.how = "built"
    /\ \E i, j, k \in DOMAIN RecordedIn(tierOut.val.tier) :
          /\ i < k /\ k < j
          /\ RecordedIn(tierOut.val.tier)[i] = "Russia"
          /\ RecordedIn(tierOut.val.tier)[j] = "Russia"
          /\ RecordedIn(tierOut.val.tier)[k] # "Russia"
          /\ \E a, b \in DOMAIN tierOut.val.non :
                /\ a < b /\ tierOut.val.non[a] = "Russia"
                /\ tierOut.val.non[b] = RecordedIn(tierOut.val.tier)[k]

-----------------------------------------------------------------------------
(* Claims on the row index of the catalogue *)

\* C29: the catalogue get_subregion_downloads_catalogue returns has the row
\* index 0, 1, ..., n-1 without gaps, whether rows were removed as exact
\* duplicates, as duplicates of a name, or not at all.
C29_DenseRowIndex ==
    catOut.how = "built" =>
        \A i \in DOMAIN catOut.val : catOut.val[i].label = i - 1

-----------------------------------------------------------------------------
(* Claims on the loop that drains the queue of the hierarchy build *)

\* the keys of having_subregions
HavingNames == {Having[k][1] : k \in DOMAIN Having}

\* C30: in an invocation of compile_region_subregion_tier no entry of the
\* queue of the regions that have subregions is expanded twice, and when the
\* invocation returns every entry has been expanded once and the queue is
\* empty.
C30_EachEntryExpandedOnce ==
    (arg.fn = "compile" /\ ret # NotApplied) =>
        /\ \A i, j \in DOMAIN ret.expanded : ret.expanded[i] = ret.expanded[j] => i = j
        /\ Range(ret.expanded) \subseteq HavingNames
        /\ ret.state = "returned" =>
              (Range(ret.expanded) = HavingNames /\ ret.temp = <<>>)

\* an invocation has returned after it expanded two regions, the queue empty
C30_Witness ==
    /\ arg.fn = "compile" /\ ret # NotApplied /\ ret.state = "returned"
    /\ Len(ret.expanded) = 2 /\ ret.temp = <<>>

-----------------------------------------------------------------------------
(* Claims on the rows the crawl collects *)

RECURSIVE TablePagesBelow(_, _, _)
\* the pages with a table that are listed on the pages in from or below
\* them, at most fuel levels down
TablePagesBelow(s, from, fuel) ==
    IF fuel = 0 \/ from = {} THEN {}
    ELSE LET next == {pg \in UNION {Range(Listed(s.topo, q)) : q \in from} :
                         s.fail[pg] = "ok" /\ Listed(s.topo, pg) # <<>>}
         IN  next \cup TablePagesBelow(s, next, fuel - 1)

\* the rows of the table of the home page and of every page table that can
\* be reached from it, as tuples of their columns
ReachableRows(s) ==
    UNION {{Cols(TableOn(s.topo, pg)[i]) : i \in DOMAIN TableOn(s.topo, pg)} :
              pg \in {"home"} \cup TablePagesBelow(s, {"home"}, Cardinality(Regions) + 1)}

\* C31: the frame assembled before the rows that share a name are resolved
\* holds every distinct row of the table of the home page and of the page
\* tables reachable from it, and holds it once, however often a table was
\* appended during the crawl.
C31_EveryReachableRowOnce ==
    (arg.fn = "assemble" /\ ret # NotApplied /\ ret.how = "built") =>
        /\ \A i, j \in DOMAIN ret.val : Cols(ret.val[i]) = Cols(ret.val[j]) => i = j
        /\ {Cols(ret.val[i]) : i \in DOMAIN ret.val} = ReachableRows(arg.site)

\* a frame was assembled from a source whose home page lists Europe before
\* Asia: the table of GB was appended for Europe and again for Asia, and
\* the rows that came twice are in the frame once
C31_Witness ==
    /\ arg.fn = "assemble" /\ ret # NotApplied /\ ret.how = "built"
    /\ arg.site.topo = 8 /\ arg.site.fail = NoFail
    /\ ret.raw > Cardinality(ReachableRows(arg.site)) + 1
    /\ Len(ret.val) = Cardinality(ReachableRows(arg.site))

-----------------------------------------------------------------------------
(* Claims on the paths of the later names of a call *)

\* the path at which get_default_path_to_osm_file puts the file of a region
DefaultPathOf(name, fmt) ==
    GetDefaultPathToOsmFile(FullCache, Src, name, fmt, AllYes, None).path

\* C32: in a call without download_dir every name of the call whose file
\* URL is available is saved at its own default path, whichever names were
\* processed before it, those that fell back to their subregions included.
C32_LaterNamesAtDefaultPath ==
    req.dir = NoDir =>
        \A i \in DOMAIN log :
            (log[i].depth = 1 /\ log[i].ev \in ItemEvents) =>
                log[i].path = DefaultPathOf(log[i].name, req.fmt)

-----------------------------------------------------------------------------
(* Claims on the arguments of the nested calls *)

\* C33: the call download_subregion_osm_file makes for the subregions runs
\* with the interval_sec and the deep_retry of its caller: it sleeps the
\* caller's interval_sec after each subregion, not at all when that is zero,
\* and it expands deeply when the caller does.
C33_NestedCallKeepsArguments ==
    /\ \A k \in 2..Len(stack) :
          stack[k].interval = req.interval /\ stack[k].deep = req.deep
    /\ \A i \in DOMAIN log :
          (log[i].ev = "sleep" /\ log[i].depth > 1) =>
              (req.interval # 0 /\ log[i].secs = req.interval)

====
